---- MODULE Spec2Model ----
(***************************************************************************)
(* Model of weed/storage/needle/needle_parse_upload.go: ParseUpload turns  *)
(* one HTTP upload (single-body PUT or multipart POST) into a ParsedUpload *)
(* record or an error.                                                     *)
(*                                                                         *)
(* Bytes are small integers, byte strings are sequences of them, header    *)
(* values are strings and file names are sequences of one-character        *)
(* strings (so that path.Base, LastIndex and ToLower can be computed).     *)
(* PairMap, ModifiedTime and Ttl are not modelled: no property below reads *)
(* them and they never influence the other fields.                         *)
(***************************************************************************)
EXTENDS Integers, Sequences, FiniteSets, TLC

\* Longest run of one byte in a request payload.
MaxLen == 4
\* Largest number of sections in a multipart body.
MaxParts == 3

VARIABLES
    req,          \* the request being parsed
    pc,           \* "start" before ParseUpload ran, "done" after it returned
    pu,           \* the ParsedUpload ParseUpload returned
    err,          \* the error ParseUpload returned (Nil for success)
    bodyDrained,  \* no unread byte of r.Body is left
    bodyClosed,   \* r.Body.Close() was called
    acquired,     \* pu as parsePut / parseMultipart left it
    partsRead,    \* number of sections form.NextPart() handed out
    digest,       \* cr.Checksum(), <<>> when no ChecksumReader was built
    readFailed,   \* some ioutil.ReadAll returned a non-nil error
    classifier    \* what util.IsGzippableFileType answers for this upload

vars == <<req, pc, pu, err, bodyDrained, bodyClosed, acquired, partsRead,
          digest, readFailed, classifier>>

-----------------------------------------------------------------------------
(* Byte strings *)

Min(a, b) == IF a < b THEN a ELSE b

Take(s, n) == SubSeq(s, 1, Min(n, Len(s)))

Drop(s, n) == SubSeq(s, n + 1, Len(s))

Rep(b, n) == [i \in 1..n |-> b]

-----------------------------------------------------------------------------
(* gzip.  A stream is the magic byte followed by (count, byte) pairs, one  *)
(* pair per run of equal bytes; it has no trailer.                         *)

GzMagic == 31

RECURSIVE RunLen(_)
RunLen(d) ==
    IF Len(d) >= 2 /\ d[2] = d[1] THEN 1 + RunLen(Tail(d)) ELSE 1

RECURSIVE Deflate(_)
Deflate(d) ==
    IF d = <<>> THEN <<>>
    ELSE LET n == RunLen(d) IN <<n, d[1]>> \o Deflate(Drop(d, n))

\* Decodes pairs until the input ends; ok is FALSE when the input is cut
\* inside a pair or a count is zero, data is what was decoded until then.
RECURSIVE Inflate(_)
Inflate(b) ==
    IF b = <<>> THEN [data |-> <<>>, ok |-> TRUE]
    ELSE IF Len(b) = 1 \/ b[1] = 0 THEN [data |-> <<>>, ok |-> FALSE]
    ELSE LET rest == Inflate(Drop(b, 2))
         IN  [data |-> Rep(b[2], b[1]) \o rest.data, ok |-> rest.ok]

\* util.GzipData
GzipData(d) == <<GzMagic>> \o Deflate(d)

\* util.DecompressData: (unzipped, err)
DecompressData(input) ==
    IF input = <<>> \/ input[1] # GzMagic
    THEN [data |-> input, err |-> TRUE]
    ELSE LET r == Inflate(Tail(input)) IN [data |-> r.data, err |-> ~r.ok]

-----------------------------------------------------------------------------
(* Readers.  A read result is [data, err]: the bytes ioutil.ReadAll        *)
(* returned and whether it returned a non-nil error.                       *)

\* ioutil.ReadAll(io.LimitReader(src, n)): src delivers `bytes` and then
\* ends cleanly, or fails when `broken`.  The limit reader reports EOF after
\* n bytes without touching src again.
LimitRead(bytes, broken, n) ==
    [data |-> Take(bytes, n), err |-> broken /\ Len(bytes) < n]

\* gzip.NewReader(reader) fails when the header cannot be read.
GzipHeaderBad(lr) == lr.data = <<>> \/ lr.data[1] # GzMagic

\* ioutil.ReadAll over the gzip reader built on the limited read lr.
GzipRead(lr) ==
    LET r == Inflate(Tail(lr.data))
    IN  [data |-> r.data, err |-> ~r.ok \/ lr.err]

-----------------------------------------------------------------------------
(* ChecksumReader: an incremental hash over the bytes read, printed in hex *)

RECURSIVE HashWrite(_, _)
HashWrite(h, d) ==
    IF d = <<>> THEN h ELSE HashWrite((h * 33 + d[1] + 1) % 256, Tail(d))

HexDigits == <<"0", "1", "2", "3", "4", "5", "6", "7",
               "8", "9", "a", "b", "c", "d", "e", "f">>

\* fmt.Sprintf("%x", cr.h.Sum(nil))
Checksum(d) ==
    LET h == HashWrite(7, d)
    IN  <<HexDigits[(h \div 16) + 1], HexDigits[(h % 16) + 1]>>

-----------------------------------------------------------------------------
(* File names *)

RECURSIVE StripSlashes(_)
StripSlashes(s) ==
    IF s # <<>> /\ s[Len(s)] = "/" THEN StripSlashes(SubSeq(s, 1, Len(s) - 1))
    ELSE s

\* strings.LastIndex(s, c), 0-based, -1 when c does not occur
LastIndex(s, c) ==
    LET at == {i \in 1..Len(s) : s[i] = c}
    IN  IF at = {} THEN -1 ELSE (CHOOSE i \in at : \A j \in at : j <= i) - 1

\* path.Base / filepath.Base
Base(s) ==
    IF s = <<>> THEN <<".">>
    ELSE LET t == StripSlashes(s)
         IN  IF t = <<>> THEN <<"/">> ELSE Drop(t, LastIndex(t, "/") + 1)

LowerChar(c) ==
    CASE c = "T" -> "t" [] c = "X" -> "x" [] c = "C" -> "c" [] OTHER -> c

\* strings.ToLower
ToLower(s) == [i \in 1..Len(s) |-> LowerChar(s[i])]

TextPlain == "text/plain; charset=utf-8"
OctetStream == "application/octet-stream"

\* mime.TypeByExtension
TypeByExtension(ext) ==
    CASE ext = <<".", "t", "x", "t">> -> TextPlain
      [] ext = <<".", "j", "p", "g">> -> "image/jpeg"
      [] OTHER -> ""

IsBinaryByte(b) ==
    b <= 8 \/ b = 11 \/ (14 <= b /\ b <= 26) \/ (28 <= b /\ b <= 31)

\* http.DetectContentType
DetectContentType(d) ==
    IF d # <<>> /\ d[1] = GzMagic THEN "application/x-gzip"
    ELSE IF \E i \in 1..Len(d) : IsBinaryByte(d[i]) THEN OctetStream
    ELSE TextPlain

\* util.IsGzippableFileType(ext, mtype): (shouldBeZipped, iAmSure).  The
\* classifier is an external capability with no policy of its own here: its
\* answer to the one question an upload asks is `classifier`.
IsGzippableFileType(ext, mtype) == classifier

-----------------------------------------------------------------------------
(* Errors and records *)

Error(kind, args) == [kind |-> kind, args |-> args]

Nil == Error("nil", <<>>)

\* fmt.Errorf("file over the limited %d bytes", sizeLimit)
LimitError(sizeLimit) == Error("file over the limited bytes", <<sizeLimit>>)

\* fmt.Errorf("Content-MD5 did not match md5 of file data [%s] != [%s]", ...)
MD5Error(expected, actual) ==
    Error("Content-MD5 did not match md5 of file data", <<expected, actual>>)

\* pu = &ParsedUpload{}
NewParsedUpload ==
    [FileName |-> <<>>, Data |-> <<>>, MimeType |-> "", IsGzipped |-> FALSE,
     OriginalDataSize |-> 0, IsChunkedFile |-> FALSE, UncompressedData |-> <<>>]

\* What an acquisition variant leaves behind: the record, its error and the
\* state of r.Body.
Outcome(p, e, drained, closed, nparts, sum, failed) ==
    [pu |-> p, e |-> e, drained |-> drained, closed |-> closed,
     partsRead |-> nparts, digest |-> sum, readFailed |-> failed]

\* len(data) == int(sizeLimit)+1
ExceedsLimit(data, sizeLimit) == Len(data) = sizeLimit + 1

-----------------------------------------------------------------------------
(* parsePut *)

PutIsGzippedNever(r) == FALSE

\* r.Header.Get("Content-Encoding") == "gzip"
PutIsGzipped(r) == r.contentEncoding = "gzip"

parsePut(r) ==
    LET rd == LimitRead(r.body, r.broken, r.sizeLimit + 1)
        \* ReadAll never returns io.EOF, and pu.OriginalDataSize is still 0
        discard == NewParsedUpload.OriginalDataSize = r.sizeLimit + 1
        p == [NewParsedUpload EXCEPT !.IsGzipped = PutIsGzipped(r),
                                     !.MimeType = r.contentType,
                                     !.FileName = <<>>,
                                     !.Data = rd.data]
    IN  Outcome(p, Nil, discard \/ Len(rd.data) = Len(r.body), TRUE, 0, <<>>,
                rd.err)

-----------------------------------------------------------------------------
(* parseMultipart *)

ChecksumLengthMismatch(expected, actual) == Len(expected) # Len(actual)

\* expectedChecksum != cr.Checksum()
ChecksumMismatch(expected, actual) == expected # actual

\* Reading section i past its bytes fails instead of ending cleanly: a
\* broken transport delivers every section and fails after the last one.
PartBroken(r, i) == r.broken /\ i = Len(r.parts)

\* The search through the sections after section i for the first one with a
\* file name (the for loop).  found: a replacement was read; e: its error;
\* at: the number of sections NextPart handed out; eof: NextPart failed.
RECURSIVE ScanPartsLast(_, _)
ScanPartsLast(r, i) ==
    IF i >= Len(r.parts)
    THEN [found |-> FALSE, e |-> Nil, at |-> i, eof |-> TRUE, failed |-> FALSE,
          data |-> <<>>, name |-> <<>>]
    ELSE LET fName == r.parts[i + 1].name
             rd == LimitRead(r.parts[i + 1].bytes, PartBroken(r, i + 1),
                             r.sizeLimit + 1)
             later == ScanPartsLast(r, i + 1)
         IN  IF fName # <<>> /\ ~later.found
             THEN [found |-> ~rd.err /\ ~ExceedsLimit(rd.data, r.sizeLimit),
                   e |-> IF rd.err THEN Error("io", <<>>)
                         ELSE IF ExceedsLimit(rd.data, r.sizeLimit)
                              THEN LimitError(r.sizeLimit) ELSE Nil,
                   at |-> i + 1, eof |-> FALSE, failed |-> rd.err,
                   data |-> rd.data, name |-> Base(fName)]
             ELSE later

RECURSIVE ScanParts(_, _)
ScanParts(r, i) ==
    IF i >= Len(r.parts)
    THEN \* form.NextPart() fails: no more or on error, just safely break
         [found |-> FALSE, e |-> Nil, at |-> i, eof |-> TRUE, failed |-> FALSE,
          data |-> <<>>, name |-> <<>>]
    ELSE LET fName == r.parts[i + 1].name
             rd == LimitRead(r.parts[i + 1].bytes, PartBroken(r, i + 1),
                             r.sizeLimit + 1)
         IN  IF fName # <<>>
             THEN [found |-> ~rd.err /\ ~ExceedsLimit(rd.data, r.sizeLimit),
                   e |-> IF rd.err THEN Error("io", <<>>)
                         ELSE IF ExceedsLimit(rd.data, r.sizeLimit)
                              THEN LimitError(r.sizeLimit) ELSE Nil,
                   at |-> i + 1, eof |-> FALSE, failed |-> rd.err,
                   data |-> rd.data, name |-> Base(fName)]
             ELSE ScanParts(r, i + 1)

\* dotIndex, ext, mtype of the non-chunked branch
MimeGuess(fileName) ==
    LET dotIndex == LastIndex(fileName, ".")
    IN  IF dotIndex > 0 THEN TypeByExtension(ToLower(Drop(fileName, dotIndex)))
        ELSE ""

ExplicitTypeAlwaysWins(contentType, mtype) ==
    contentType # "" /\ contentType # OctetStream

\* contentType != "" && contentType != "application/octet-stream" && mtype != contentType
ExplicitTypeWins(contentType, mtype) ==
    contentType # "" /\ contentType # OctetStream /\ mtype # contentType

\* The tail of parseMultipart, from r.FormValue("cm") on.
FinishMultipart(r, p) ==
    LET part == r.parts[1]
        p1 == [p EXCEPT !.IsChunkedFile = r.cm]
    IN  IF p1.IsChunkedFile THEN p1
        ELSE [p1 EXCEPT
                !.MimeType = IF ExplicitTypeWins(part.contentType,
                                                 MimeGuess(p1.FileName))
                             THEN part.contentType ELSE @,
                !.IsGzipped = part.contentEncoding = "gzip"]

\* The deferred function: on error the body is drained and closed.
Deferred(out) ==
    IF out.e.kind # "nil" THEN [out EXCEPT !.drained = TRUE, !.closed = TRUE] ELSE out

\* Sections 1..n were handed out and the last of them was read up to `got`
\* bytes: is any byte of the body left unread?
NothingLeft(r, n, got) == n = Len(r.parts) /\ got >= Len(r.parts[n].bytes)

parseMultipartBody(r) ==
    LET p0 == NewParsedUpload IN
    IF r.contentType # "multipart/form-data"
    THEN \* r.MultipartReader() fails
         Outcome(p0, Error("request Content-Type isn't multipart/form-data", <<>>),
                 FALSE, FALSE, 0, <<>>, FALSE)
    ELSE IF r.parts = <<>>
    THEN \* the first form.NextPart() fails
         Outcome(p0, Error(IF r.broken THEN "io" ELSE "EOF", <<>>),
                 FALSE, FALSE, 0, <<>>, FALSE)
    ELSE
    LET part == r.parts[1]
        p1 == [p0 EXCEPT !.FileName = IF part.name # <<>> THEN Base(part.name)
                                      ELSE <<>>]
        lr == LimitRead(part.bytes, PartBroken(r, 1), r.sizeLimit + 1)
        expectedChecksum == r.contentMD5
        zipped == expectedChecksum # <<>> /\ r.contentEncoding = "gzip"
    IN
    IF zipped /\ GzipHeaderBad(lr)
    THEN Outcome(p1, Error("Content-Encoding == gzip but content was not gzipped", <<>>),
                 FALSE, FALSE, 1, <<>>, FALSE)
    ELSE
    LET rd == IF zipped THEN GzipRead(lr) ELSE lr
        sum == IF expectedChecksum # <<>> THEN Checksum(rd.data) ELSE <<>>
        p2 == [p1 EXCEPT !.Data = rd.data]
        got == Len(lr.data)
    IN
    IF expectedChecksum # <<>> /\ ChecksumMismatch(expectedChecksum, sum)
    THEN Outcome(p2, MD5Error(expectedChecksum, sum), FALSE, FALSE, 1, sum, rd.err)
    ELSE IF rd.err
    THEN Outcome(p2, Error("io", <<>>), FALSE, FALSE, 1, sum, TRUE)
    ELSE IF ExceedsLimit(p2.Data, r.sizeLimit)
    THEN Outcome(p2, LimitError(r.sizeLimit), FALSE, FALSE, 1, sum, FALSE)
    ELSE IF p2.FileName # <<>>
    THEN Outcome(FinishMultipart(r, p2), Nil, NothingLeft(r, 1, got), FALSE, 1,
                 sum, FALSE)
    ELSE
    LET scan == ScanParts(r, 1) IN
    IF scan.e.kind # "nil"
    THEN Outcome(p2, scan.e, FALSE, FALSE, scan.at, sum, scan.failed)
    ELSE IF scan.found
    THEN Outcome(FinishMultipart(r, [p2 EXCEPT !.Data = scan.data,
                                               !.FileName = scan.name]),
                 Nil, NothingLeft(r, scan.at, Len(scan.data)), FALSE, scan.at,
                 sum, FALSE)
    ELSE Outcome(FinishMultipart(r, p2), Nil, TRUE, FALSE, scan.at, sum, FALSE)

parseMultipart(r) == Deferred(parseMultipartBody(r))

-----------------------------------------------------------------------------
(* ParseUpload *)

KeepCompressedIfNotLarger(compressedData, data) ==
    Len(compressedData) <= Len(data)

\* len(compressedData)*10 < len(pu.Data)*9
KeepCompressed(compressedData, data) ==
    Len(compressedData) * 10 < Len(data) * 9

\* pu.MimeType == "" && !iAmSure || shouldGzip && iAmSure
ShouldTryGzip(fileName, mimeType) ==
    LET c == IsGzippableFileType(Base(fileName), mimeType)
    IN  (mimeType = "" /\ ~c.iAmSure) \/ (c.shouldGzip /\ c.iAmSure)

\* ParseUpload after the acquisition succeeded.
Negotiate(p) ==
    LET p1 == [p EXCEPT !.OriginalDataSize = Len(p.Data),
                        !.UncompressedData = p.Data]
        sniffed == DetectContentType(p1.Data)
        p2 == IF p1.MimeType = ""
              THEN [p1 EXCEPT !.MimeType = IF sniffed = OctetStream THEN ""
                                           ELSE sniffed]
              ELSE p1
    IN  IF p2.IsGzipped
        THEN LET un == DecompressData(p2.Data)
             IN  IF ~un.err
                 THEN [p2 EXCEPT !.OriginalDataSize = Len(un.data),
                                 !.UncompressedData = un.data]
                 ELSE p2
        ELSE IF ShouldTryGzip(p2.FileName, p2.MimeType)
                /\ KeepCompressed(GzipData(p2.Data), p2.Data)
        THEN [p2 EXCEPT !.Data = GzipData(p2.Data), !.IsGzipped = TRUE]
        ELSE p2

\* ParseUpload: the acquisition outcome and the record returned.
ParseUpload(r) ==
    LET out == IF r.method = "POST" THEN parseMultipart(r) ELSE parsePut(r)
    IN  [out |-> out,
         pu  |-> IF out.e.kind # "nil" THEN out.pu ELSE Negotiate(out.pu)]

-----------------------------------------------------------------------------
(* Requests *)

SizeLimits == {2, 4}

PlainBytes == {8, 9}

PlainPayloads == {Rep(b, n) : b \in PlainBytes, n \in 0..MaxLen}

\* What a client may send as a payload: plain bytes, or their gzip stream.
Payloads == PlainPayloads \cup {GzipData(d) : d \in PlainPayloads}

NameA == <<"d", "/", "a", ".", "t", "x", "t">>
NameC == <<"e", "/", "c", ".", "T", "X", "T">>

Part(name, contentType, contentEncoding, bytes) ==
    [name |-> name, contentType |-> contentType,
     contentEncoding |-> contentEncoding, bytes |-> bytes]

PrimaryParts ==
    {Part(n, t, c, d) : n \in {<<>>, NameA}, t \in {"", OctetStream, TextPlain},
                        c \in {"", "gzip"}, d \in Payloads}

\* The sections after the primary one: section i carries i bytes.
RECURSIVE LaterParts(_, _)
LaterParts(i, n) ==
    IF i > n THEN {<<>>}
    ELSE {<<Part(name, "", "", Rep(8, i))>> \o rest :
            name \in {<<>>, NameC}, rest \in LaterParts(i + 1, n)}

Bodies ==
    {<<>>} \cup
    {<<first>> \o rest : first \in PrimaryParts,
                         rest \in UNION {LaterParts(2, n) : n \in 1..MaxParts}}

\* The Content-MD5 values a client may send with a body: none, the digest of
\* the first section as sent or as decoded, or something else.
ContentMD5s(parts) ==
    {<<>>, <<"z", "z">>} \cup
    (IF parts = <<>> THEN {}
     ELSE {Checksum(parts[1].bytes), Checksum(DecompressData(parts[1].bytes).data)})

Request(method, limit, ctype, cenc, md5, cm, broken, body, parts) ==
    [method |-> method, sizeLimit |-> limit, contentType |-> ctype,
     contentEncoding |-> cenc, contentMD5 |-> md5, cm |-> cm,
     broken |-> broken, body |-> body, parts |-> parts]

IsPutRequest(r) ==
    \E l \in SizeLimits, t \in {"", TextPlain, "image/jpeg", OctetStream},
       c \in {"", "gzip"}, b \in BOOLEAN, d \in Payloads :
        r = Request("PUT", l, t, c, <<>>, FALSE, b, d, <<>>)

\* A multipart upload is a manifest (cm), or its transport breaks, or neither.
Modes == {<<FALSE, FALSE>>, <<TRUE, FALSE>>, <<FALSE, TRUE>>}

IsPostRequest(r) ==
    \/ \E ps \in Bodies, l \in SizeLimits, c \in {"", "gzip"}, mode \in Modes :
         \E m \in ContentMD5s(ps) :
            r = Request("POST", l, "multipart/form-data", c, m, mode[1], mode[2],
                        <<>>, ps)
    \/ \E l \in SizeLimits :
         \* not a multipart request at all
         r = Request("POST", l, TextPlain, "", <<>>, FALSE, FALSE, <<>>, <<>>)

-----------------------------------------------------------------------------
(* The state machine: one request, parsed once. *)

Init ==
    /\ IsPutRequest(req) \/ IsPostRequest(req)
    /\ pc = "start"
    /\ pu = NewParsedUpload
    /\ err = Nil
    /\ bodyDrained = FALSE
    /\ bodyClosed = FALSE
    /\ acquired = NewParsedUpload
    /\ partsRead = 0
    /\ digest = <<>>
    /\ readFailed = FALSE
    /\ classifier \in [shouldGzip : BOOLEAN, iAmSure : BOOLEAN]

Return(res) ==
    /\ pc' = "done"
    /\ pu' = res.pu
    /\ err' = res.out.e
    /\ bodyDrained' = res.out.drained
    /\ bodyClosed' = res.out.closed
    /\ acquired' = res.out.pu
    /\ partsRead' = res.out.partsRead
    /\ digest' = res.out.digest
    /\ readFailed' = res.out.readFailed
    /\ UNCHANGED <<req, classifier>>

\* ParseUpload on a POST request
ParseUploadPost ==
    /\ pc = "start"
    /\ req.method = "POST"
    /\ Return(ParseUpload(req))

\* ParseUpload on any other request
ParseUploadPut ==
    /\ pc = "start"
    /\ req.method # "POST"
    /\ Return(ParseUpload(req))

Next == ParseUploadPost \/ ParseUploadPut

Spec == Init /\ [][Next]_vars

-----------------------------------------------------------------------------
(* Properties *)

Done == pc = "done"

Succeeded == Done /\ err.kind = "nil"

Multipart == req.method = "POST"

\* The MIME type sniffing leaves behind: the generic type is dropped.
Sniffed(d) ==
    IF DetectContentType(d) = OctetStream THEN "" ELSE DetectContentType(d)

\* The sections after the primary one that carry a file name.
NamedLater == {k \in 2..Len(req.parts) : req.parts[k].name # <<>>}

FirstNamedLater == CHOOSE k \in NamedLater : \A j \in NamedLater : k <= j

\* A later section stands in for a primary section without a file name.
Replaced ==
    /\ Succeeded /\ Multipart /\ req.parts # <<>>
    /\ req.parts[1].name = <<>> /\ NamedLater # {}

\* C1: in both variants a payload of exactly sizeLimit + 1 bytes read under
\* the cap makes ParseUpload return "file over the limited <sizeLimit> bytes".
C1_OverLimitIsError ==
    Done /\ Len(acquired.Data) = req.sizeLimit + 1
        => err.kind = "file over the limited bytes" /\ err.args = <<req.sizeLimit>>

\* C2: on every exit path of ParseUpload the unread remainder of the request
\* body has been drained and the body has been closed.
C2_BodyDrainedAndClosed == Done => bodyDrained /\ bodyClosed

\* C3: whenever a returned record has IsGzipped, Data is a valid gzip stream
\* that decodes to exactly UncompressedData.
C3_GzipRoundTrip ==
    Succeeded /\ pu.IsGzipped
        => /\ ~DecompressData(pu.Data).err
           /\ DecompressData(pu.Data).data = pu.UncompressedData

\* C4: a multipart upload whose expected checksum differs from the digest
\* computed over the section's bytes returns an error naming the expected and
\* the computed value, and so no record as a valid result.
C4_ChecksumMismatchIsError ==
    Done /\ Multipart /\ digest # <<>> /\ digest # req.contentMD5
        => /\ err.kind = "Content-MD5 did not match md5 of file data"
           /\ err.args = <<req.contentMD5, digest>>

C4_Witness ==
    /\ Done /\ Multipart /\ digest # <<>> /\ digest # req.contentMD5
    /\ err.kind # "nil" /\ acquired.Data # <<>>

\* C5: when the primary section has no file name and a later one has, the
\* final FileName and Data are those of the first such later section (the
\* name as its base name, the data as sent or as ParseUpload compressed it),
\* and no section after it is read.
C5_FirstNamedSectionWins ==
    Replaced =>
        LET chosen == req.parts[FirstNamedLater]
        IN  /\ pu.FileName = Base(chosen.name)
            /\ acquired.Data = chosen.bytes
            /\ \/ pu.Data = chosen.bytes
               \/ pu.IsGzipped /\ DecompressData(pu.Data).data = chosen.bytes
            /\ partsRead = FirstNamedLater

C5_Witness ==
    /\ Replaced /\ FirstNamedLater < Len(req.parts)
    /\ req.parts[Len(req.parts)].name # <<>>
    /\ pu.FileName = Base(req.parts[FirstNamedLater].name)

\* C6 as stated: a single-body request returns FileName = "" and IsGzipped
\* true exactly when its Content-Encoding header is "gzip".
C6_IsGzippedIsTheHeader ==
    Done /\ ~Multipart
        => /\ err.kind = "nil"
           /\ pu.FileName = <<>>
           /\ pu.IsGzipped <=> req.contentEncoding = "gzip"

\* C6 amended: a single-body request returns FileName = "", and IsGzipped
\* true exactly when its Content-Encoding header is "gzip" or ParseUpload
\* itself compressed the payload and kept the compressed form.
C6_IsGzippedIsHeaderOrCompressed ==
    Done /\ ~Multipart
        => /\ err.kind = "nil"
           /\ pu.FileName = <<>>
           /\ pu.IsGzipped <=>
                \/ req.contentEncoding = "gzip"
                \/ /\ pu.Data = GzipData(acquired.Data)
                   /\ Len(pu.Data) * 10 < Len(acquired.Data) * 9

C6_Witness ==
    Done /\ ~Multipart /\ req.contentEncoding # "gzip" /\ pu.IsGzipped

\* C7: a payload acquired as not gzipped is replaced by its compressed form,
\* with IsGzipped true, only if len(compressed) * 10 < len(original) * 9;
\* otherwise Data is the original bytes and IsGzipped stays false.
C7_CompressedOnlyIfSmaller ==
    Succeeded /\ ~acquired.IsGzipped
        => \/ /\ pu.IsGzipped
              /\ pu.Data = GzipData(acquired.Data)
              /\ Len(pu.Data) * 10 < Len(acquired.Data) * 9
           \/ /\ ~pu.IsGzipped
              /\ pu.Data = acquired.Data

C7_Witness ==
    /\ Succeeded /\ ~acquired.IsGzipped /\ pu.IsGzipped
    /\ pu.Data # acquired.Data

\* C8: in both variants a read of the body, or of a section's bytes, that
\* returns an I/O error makes ParseUpload return an error.
C8_ReadFailureIsError == Done /\ readFailed => err.kind # "nil"

\* C9 as stated: in a non-chunked multipart upload the MIME guess comes from
\* the primary section's file name, and the primary section's Content-Type
\* becomes MimeType exactly when it is non-empty, not the generic type and
\* not that guess (MimeType is sniffed from the data otherwise).
C9_GuessFromPrimaryName ==
    Succeeded /\ Multipart /\ ~pu.IsChunkedFile =>
        LET part == req.parts[1]
            name == IF part.name # <<>> THEN Base(part.name) ELSE <<>>
            wins == /\ part.contentType # ""
                    /\ part.contentType # OctetStream
                    /\ part.contentType # MimeGuess(name)
        IN  pu.MimeType = IF wins THEN part.contentType ELSE Sniffed(acquired.Data)

\* C9 amended: in a non-chunked multipart upload the MIME guess comes from
\* the final FileName (the replacement section's base name when one was
\* chosen), and the primary section's Content-Type becomes MimeType exactly
\* when it is non-empty, not the generic type and not that guess (MimeType is
\* sniffed from the data otherwise).
C9_GuessFromFinalName ==
    Succeeded /\ Multipart /\ ~pu.IsChunkedFile =>
        LET part == req.parts[1]
            wins == /\ part.contentType # ""
                    /\ part.contentType # OctetStream
                    /\ part.contentType # MimeGuess(pu.FileName)
        IN  pu.MimeType = IF wins THEN part.contentType ELSE Sniffed(acquired.Data)

C9_Witness ==
    /\ Replaced /\ ~pu.IsChunkedFile
    /\ req.parts[1].contentType = MimeGuess(pu.FileName)
    /\ pu.MimeType # req.parts[1].contentType

\* C10: a multipart upload with a Content-MD5 header succeeds only with
\* acquired payload bytes whose digest is the expected checksum.
C10_AcquiredDataIsValidated ==
    Succeeded /\ Multipart /\ req.contentMD5 # <<>>
        => Checksum(acquired.Data) = req.contentMD5

====
